---- MODULE Spec2Model ----
(***************************************************************************)
(* A model of momepy/intensity.py: the radius neighbour query and the four *)
(* intensity characters (frequency, covered area ratio, floor area ratio,  *)
(* block density) over GeoDataFrames.                                      *)
(*                                                                         *)
(* A GeoDataFrame is a sequence of rows.  A row carries its pandas index   *)
(* label (idx), which is distinct from its position: the spatial index     *)
(* answers with positions (0-based), while Series[n], DataFrame.loc and    *)
(* column assignment work on labels.  Row labels are unique integers.      *)
(*                                                                         *)
(* Datasets are given as the code expects them: row labels are unique, a   *)
(* block polygon has a positive area, the dataset handed to radius() has   *)
(* at least one row.                                                       *)
(*                                                                         *)
(* Numbers stored in a result column are exact fractions n/d (the code     *)
(* stores the float n/d); NaN is the missing value of a float column.      *)
(* Distances are compared through their squares: for a point geometry,     *)
(* dist < radius  iff  radius > 0 and dist^2 < radius^2.                   *)
(***************************************************************************)
EXTENDS Integers, Sequences, FiniteSets, TLC

VARIABLES objects, look_for, blocks, call, ret

vars == <<objects, look_for, blocks, call, ret>>

(* ------------------------------ bounds -------------------------------- *)

\* rows of the objects dataset
MaxRows == 2
\* rows of the look_for dataset
MaxLookFor == 2
\* rows of the blocks dataset
MaxBlocks == 2
\* rows of the point dataset handed to radius()
MaxPts == 3

(* ------------------------------ values -------------------------------- *)

NaN == [k |-> "nan", n |-> 0, d |-> 1]

Num(a, b) == [k |-> "num", n |-> a, d |-> b]

\* equality of two stored values as numbers (fractions by cross product)
EqVal(v, w) ==
    IF v.k = "nan" \/ w.k = "nan" THEN v.k = w.k
    ELSE v.n * w.d = w.n * v.d

Point(px, py) == [kind |-> "Point", x |-> px, y |-> py, area |-> 0]

Polygon(px, py, a) == [kind |-> "Polygon", x |-> px, y |-> py, area |-> a]

\* GeoSeries.centroid: a polygon is (centroid x, centroid y, area)
centroid(g) == Point(g.x, g.y)

\* the square of shapely's cpt.distance(geom) for point geometries
Dist2(p, q) == (p.x - q.x) * (p.x - q.x) + (p.y - q.y) * (p.y - q.y)

\* dist < radius, with dist = sqrt(d2) >= 0
DistLess(d2, rad) == rad > 0 /\ d2 < rad * rad

(* --------------------------- pandas helpers --------------------------- *)

Positions(df) == {i - 1 : i \in 1..Len(df)}

IndexLabels(df) == {df[i].idx : i \in 1..Len(df)}

\* Series[n] on an integer index: the row whose label is n
RowAt(df, n) == df[CHOOSE i \in 1..Len(df) : df[i].idx = n]

\* df.copy(); df['geometry'] = df.centroid
WithCentroids(df) ==
    [i \in 1..Len(df) |-> [df[i] EXCEPT !.geometry = centroid(df[i].geometry)]]

(* ------------------------------ radius -------------------------------- *)

\* sindex.intersection(bbox): the positions of the rows whose (point)
\* bounding box intersects the search box
SindexIntersection(gpd_df, bbox) ==
    {p \in Positions(gpd_df) :
        LET g == gpd_df[p + 1].geometry
        IN  /\ bbox[1] <= g.x /\ g.x <= bbox[3]
            /\ bbox[2] <= g.y /\ g.y <= bbox[4]}

\* (a, m) < (b, n) as Python compares the tuples (dist, n)
TupleLess(s, t) == s[1] < t[1] \/ (s[1] = t[1] /\ s[2] < t[2])

\* good.sort(); [x[1] for x in good]
RECURSIVE SortedIds(_)
SortedIds(good) ==
    IF good = {} THEN <<>>
    ELSE LET m == CHOOSE s \in good : \A t \in good \ {s} : TupleLess(s, t)
         IN  <<m[2]>> \o SortedIds(good \ {m})

\* radius(gpd_df, cpt, radius).  strict: the spatial index rejects a box
\* whose minimum exceeds its maximum (an rtree index raises RTreeError;
\* otherwise no row lies in such a box).
radius(gpd_df, cpt, rad, strict) ==
    LET bbox == <<cpt.x - rad, cpt.y - rad, cpt.x + rad, cpt.y + rad>>
        inverted == bbox[1] > bbox[3] \/ bbox[2] > bbox[4]
        cands == SindexIntersection(gpd_df, bbox)
        good == {<<Dist2(cpt, RowAt(gpd_df, n).geometry), n>> :
                    n \in {c \in cands :
                        DistLess(Dist2(cpt, RowAt(gpd_df, c).geometry), rad)}}
    IN  IF inverted /\ strict
        THEN [status |-> "RTreeError", value |-> <<>>]
        ELSE IF \E n \in cands : n \notin IndexLabels(gpd_df)
        THEN [status |-> "KeyError", value |-> <<>>]
        ELSE [status |-> "ok", value |-> SortedIds(good)]

(* ------------------------- calls and results -------------------------- *)

\* the last call made: the operation and its arguments
Call(op, column_name, area_column, look_for_area_column, id_column, same, cpt, rad) ==
    [op |-> op, column_name |-> column_name, area_column |-> area_column,
     look_for_area_column |-> look_for_area_column, id_column |-> id_column,
     same |-> same, cpt |-> cpt, rad |-> rad]

NoCall == Call("none", "", "", "", "", FALSE, Point(0, 0), 0)

NoRet == [status |-> "none", value |-> <<>>]

\* injective label sequences of length n over 0..n: the default RangeIndex,
\* its permutations, and indexes with a label outside 0..n-1
LabelSeqs(n) ==
    {l \in [1..n -> 0..n] : \A i, j \in 1..n : l[i] = l[j] => i = j}

(* --------------------------- radius: inputs --------------------------- *)

GridX == {0, 1, 2}

GridY == {0, 1}

Radii == {-1, 0, 1, 2}

PointFrames(maxn) ==
    UNION {{[i \in 1..n |-> [idx |-> l[i], geometry |-> Point(p[i][1], p[i][2])]] :
                l \in LabelSeqs(n), p \in [1..n -> GridX \X GridY]} :
           n \in 1..maxn}

InitRadius ==
    /\ objects = <<>>
    /\ look_for \in PointFrames(MaxPts)
    /\ blocks = <<>>
    /\ call = NoCall
    /\ ret = NoRet

CallRadius ==
    \E px \in GridX, py \in GridY, rad \in Radii, strict \in BOOLEAN :
        /\ call = NoCall
        /\ call' = Call("radius", "", "", "", "", FALSE, Point(px, py), rad)
        /\ ret' = radius(look_for, Point(px, py), rad, strict)
        /\ UNCHANGED <<objects, look_for, blocks>>

NextRadius == CallRadius

SpecRadius == InitRadius /\ [][NextRadius]_vars

(* --------------------------- radius: claims --------------------------- *)

\* the row labels are the default RangeIndex 0..n-1, in order
IsRangeIndex(df) == \A i \in 1..Len(df) : df[i].idx = i - 1

\* the identifiers of the rows strictly nearer to cpt than rad, ordered by
\* (distance, identifier)
NeighboursOf(df, cpt, rad) ==
    SortedIds({<<Dist2(cpt, df[i].geometry), df[i].idx>> :
                  i \in {j \in 1..Len(df) : DistLess(Dist2(cpt, df[j].geometry), rad)}})

\* C1: for every dataset of points, every center and every radius, radius()
\* returns exactly the identifiers of the records at distance strictly less
\* than radius, each once, ascending by distance, ties by identifier
\* (stated for the positive radii; C9 is about the others).
C1_RadiusReturnsNeighbours ==
    (call.op = "radius" /\ call.rad > 0) =>
        /\ ret.status = "ok"
        /\ ret.value = NeighboursOf(look_for, call.cpt, call.rad)

\* C9: for every dataset and every center, radius() called with radius <= 0
\* returns the empty list and does not end in an error (stated for the
\* calls whose search box the spatial index accepts).
C9_NonPositiveRadiusEmpty ==
    (call.op = "radius" /\ call.rad <= 0 /\ ret.status # "RTreeError") =>
        (ret.status = "ok" /\ ret.value = <<>>)

\* What the code does guarantee: on a dataset with the default RangeIndex and
\* a spatial index that accepts the search box, the result is the neighbours.
RadiusOnRangeIndex ==
    (call.op = "radius" /\ IsRangeIndex(look_for) /\ ret.status # "RTreeError") =>
        /\ ret.status = "ok"
        /\ ret.value = NeighboursOf(look_for, call.cpt, call.rad)

\* radius <= 0 never returns a neighbour
RadiusNonPositiveNoValue ==
    (call.op = "radius" /\ call.rad <= 0) => ret.value = <<>>

(* ----------------------------- frequency ------------------------------ *)

\* the names a result column may be given
OutCols == {"m1", "m2"}

\* the radius frequency() searches with
FrequencyRadius == 400

\* objects.loc[index, column_name] = value: every row labelled index
LocAssign(df, index, column_name, value) ==
    [j \in 1..Len(df) |->
        IF df[j].idx = index THEN [df[j] EXCEPT !.out[column_name] = value]
        ELSE df[j]]

\* the loop of frequency() from row i on: objs is objects as written so far;
\* an exception of radius() leaves the loop with the rows written before it
RECURSIVE FrequencyLoop(_, _, _, _, _)
FrequencyLoop(objs, objects_centroids, look_for_centroids, column_name, i) ==
    IF i > Len(objects_centroids)
    THEN [status |-> "ok", objects |-> objs]
    ELSE LET row == objects_centroids[i]
             neighbours == radius(look_for_centroids, row.geometry,
                                  FrequencyRadius, FALSE)
         IN  IF neighbours.status # "ok"
             THEN [status |-> neighbours.status, objects |-> objs]
             ELSE FrequencyLoop(
                      LocAssign(objs, row.idx, column_name,
                                Num(Len(neighbours.value), 1)),
                      objects_centroids, look_for_centroids, column_name, i + 1)

\* frequency() had it no copies: the centroids replace the geometry of
\* objects itself
frequencyWithoutCopy(objs, lf, column_name) ==
    LET objects_centroids == WithCentroids(objs)
        look_for_centroids == WithCentroids(lf)
        done == FrequencyLoop(objects_centroids, objects_centroids,
                              look_for_centroids, column_name, 1)
    IN  [status |-> done.status, objects |-> done.objects, look_for |-> lf]

\* frequency(objects, look_for, column_name): the centroids replace the
\* geometry of copies, so both datasets keep their own geometry
frequency(objs, lf, column_name) ==
    LET objects_centroids == WithCentroids(objs)
        look_for_centroids == WithCentroids(lf)
        done == FrequencyLoop(objs, objects_centroids, look_for_centroids,
                              column_name, 1)
    IN  [status |-> done.status, objects |-> done.objects, look_for |-> lf]

(* ---------------------- covered / floor area ratio -------------------- *)

\* the columns of the objects dataset besides its result columns
ObjectColumns == {"uID", "bID", "area", "geometry"}

\* look_for[[id_column, look_for_area_column]]
KeepColumns(lf, cols) == [j \in 1..Len(lf) |-> [c \in cols |-> lf[j][c]]]

\* the rows of right that join row l on column `on`, in right's order
RECURSIVE MatchesOf(_, _, _, _)
MatchesOf(l, right, on, j) ==
    IF j > Len(right) THEN <<>>
    ELSE (IF right[j][on] = l[on] THEN <<[left |-> l, right |-> right[j]]>>
          ELSE <<>>)
         \o MatchesOf(l, right, on, j + 1)

\* left.merge(right, on=on): the inner join in the order of the left keys;
\* the result is indexed anew, 0..k-1 (row k of the sequence has label k-1)
RECURSIVE Merge(_, _, _, _)
Merge(left, right, on, i) ==
    IF i > Len(left) THEN <<>>
    ELSE MatchesOf(left[i], right, on, 1) \o Merge(left, right, on, i + 1)

\* objects[column_name] = objects_merged[column_name]: the assignment of a
\* Series aligns on the index labels; a label the Series lacks gets NaN
AssignAligned(objs, column_name, series) ==
    [i \in 1..Len(objs) |->
        [objs[i] EXCEPT !.out[column_name] =
            IF objs[i].idx \in Positions(series) THEN series[objs[i].idx + 1]
            ELSE NaN]]

\* the body shared, line for line, by covered_area_ratio and floor_area_ratio
AreaRatio(objs, lf, column_name, area_column, look_for_area_column, id_column) ==
    LET kept == {id_column, look_for_area_column}
        look_for_kept == KeepColumns(lf, kept)
        objects_merged == Merge(objs, look_for_kept, "uID", 1)
        \* a column of both frames other than the key is renamed _x / _y
        renamed == kept \cap (ObjectColumns \ {"uID"})
        ratios == [k \in 1..Len(objects_merged) |->
                      Num(objects_merged[k].right[look_for_area_column],
                          objects_merged[k].left[area_column])]
    IN  IF "uID" \notin kept
        THEN [status |-> "KeyError", objects |-> objs]
        ELSE IF objects_merged # <<>>
                /\ (look_for_area_column \in renamed \/ area_column \in renamed)
        THEN [status |-> "KeyError", objects |-> objs]
        ELSE IF \E k \in 1..Len(objects_merged) :
                    objects_merged[k].left[area_column] = 0
        THEN [status |-> "ZeroDivisionError", objects |-> objs]
        ELSE [status |-> "ok",
              objects |-> AssignAligned(objs, column_name, ratios)]

covered_area_ratio(objs, lf, column_name, area_column, look_for_area_column, id_column) ==
    AreaRatio(objs, lf, column_name, area_column, look_for_area_column, id_column)

floor_area_ratio(objs, lf, column_name, area_column, look_for_area_column, id_column) ==
    AreaRatio(objs, lf, column_name, area_column, look_for_area_column, id_column)

(* ---------------------------- block density --------------------------- *)

\* the factor from units per square metre to units per hectare
PerHectare == 10000

\* objects[column_name] = None; .astype('float')
ResetColumn(objs, column_name) ==
    [i \in 1..Len(objs) |-> [objs[i] EXCEPT !.out[column_name] = NaN]]

\* list(set(objects[block_id].tolist()))
UniqueBlockIds(objs, block_id) == {objs[i][block_id] : i \in 1..Len(objs)}

\* Cells() had it counted the rows of the block, not their distinct ids
CellsCountingRows(objs, block_id, unique_id, id) ==
    Cardinality({j \in 1..Len(objs) : objs[j][block_id] = id})

\* len(set(objects.loc[objects[block_id] == id][unique_id].tolist()))
Cells(objs, block_id, unique_id, id) ==
    Cardinality({objs[i][unique_id] :
                    i \in {j \in 1..Len(objs) : objs[j][block_id] = id}})

\* blocks.loc[blocks[block_id] == id]: the positions of the matching rows
BlockRows(blks, block_id, id) == {j \in 1..Len(blks) : blks[j][block_id] = id}

\* blocks.loc[blocks[block_id] == id].iloc[0]['geometry'].area
Areas(blks, block_id, id) ==
    LET rows == BlockRows(blks, block_id, id)
    IN  blks[CHOOSE j \in rows : \A k \in rows : j <= k].geometry.area

\* the write-back loop of block_density() from row i on
RECURSIVE DensityLoop(_, _, _, _, _, _, _)
DensityLoop(objs, rows, column_name, blks, block_id, unique_id, i) ==
    IF i > Len(rows) THEN objs
    ELSE DensityLoop(
             LocAssign(objs, rows[i].idx, column_name,
                       Num(PerHectare * Cells(rows, block_id, unique_id,
                                              rows[i][block_id]),
                           Areas(blks, block_id, rows[i][block_id]))),
             rows, column_name, blks, block_id, unique_id, i + 1)

\* block_density(objects, column_name, blocks, block_id, unique_id)
block_density(objs, column_name, blks, block_id, unique_id) ==
    LET cleared == ResetColumn(objs, column_name)
        ids == UniqueBlockIds(cleared, block_id)
    IN  IF \E id \in ids : BlockRows(blks, block_id, id) = {}
        THEN [status |-> "IndexError", objects |-> cleared]
        ELSE [status |-> "ok",
              objects |-> DensityLoop(cleared, cleared, column_name, blks,
                                      block_id, unique_id, 1)]

(* ------------------------------- rows --------------------------------- *)

ObjectRow(idx, uID, bID, area, geometry) ==
    [idx |-> idx, uID |-> uID, bID |-> bID, area |-> area,
     geometry |-> geometry, out |-> [c \in OutCols |-> NaN]]

LookForRow(idx, uID, bID, area, farea, geometry) ==
    [idx |-> idx, uID |-> uID, bID |-> bID, area |-> area, farea |-> farea,
     geometry |-> geometry]

BlockRow(idx, bID, geometry) == [idx |-> idx, bID |-> bID, geometry |-> geometry]

\* three indexes of length n: the RangeIndex, it reversed, it shifted by one
LabelSchemes(n) ==
    {[i \in 1..n |-> i - 1], [i \in 1..n |-> n - i], [i \in 1..n |-> i]}

\* injective sequences of length n over S
InjectiveSeqs(n, S) == {q \in [1..n -> S] : \A i, j \in 1..n : q[i] = q[j] => i = j}

(* ------------------------------ actions ------------------------------- *)

CallFrequency ==
    \E column_name \in OutCols, same \in BOOLEAN :
        LET r == frequency(objects, IF same THEN objects ELSE look_for, column_name)
        IN  /\ objects' = r.objects
            /\ ret' = [status |-> r.status, value |-> <<>>]
            /\ look_for' = (IF same THEN look_for ELSE r.look_for)
            /\ call' = Call("frequency", column_name, "", "", "", same, Point(0, 0), 0)
            /\ UNCHANGED blocks

AreaColumns == {"area"}

LookForAreaColumns == {"area", "farea"}

IdColumns == {"uID", "bID"}

CallCoveredAreaRatio ==
    \E column_name \in OutCols, area_column \in AreaColumns,
       look_for_area_column \in LookForAreaColumns, id_column \in IdColumns :
        LET r == covered_area_ratio(objects, look_for, column_name, area_column,
                                    look_for_area_column, id_column)
        IN  /\ objects' = r.objects
            /\ ret' = [status |-> r.status, value |-> <<>>]
            /\ call' = Call("covered_area_ratio", column_name, area_column,
                            look_for_area_column, id_column, FALSE, Point(0, 0), 0)
            /\ UNCHANGED <<look_for, blocks>>

CallFloorAreaRatio ==
    \E column_name \in OutCols, area_column \in AreaColumns,
       look_for_area_column \in LookForAreaColumns, id_column \in IdColumns :
        LET r == floor_area_ratio(objects, look_for, column_name, area_column,
                                  look_for_area_column, id_column)
        IN  /\ objects' = r.objects
            /\ ret' = [status |-> r.status, value |-> <<>>]
            /\ call' = Call("floor_area_ratio", column_name, area_column,
                            look_for_area_column, id_column, FALSE, Point(0, 0), 0)
            /\ UNCHANGED <<look_for, blocks>>

CallBlockDensity ==
    \E column_name \in OutCols :
        LET r == block_density(objects, column_name, blocks, "bID", "uID")
        IN  /\ objects' = r.objects
            /\ ret' = [status |-> r.status, value |-> <<>>]
            /\ call' = Call("block_density", column_name, "", "", "", FALSE,
                            Point(0, 0), 0)
            /\ UNCHANGED <<look_for, blocks>>


(* ------------------------ area ratios: inputs ------------------------- *)

\* join ids; the bID of a row is 4 - uID, another unique id of the same row
RatioIds == {1, 2, 3}

ObjectAreas == {0, 2}

FloorAreas == {1, 3}

RatioObjects(maxn) ==
    UNION {{[i \in 1..n |->
                ObjectRow(l[i], u[i], 4 - u[i], a[i], Polygon(0, 0, 1))] :
                l \in LabelSeqs(n), u \in InjectiveSeqs(n, RatioIds),
                a \in [1..n -> ObjectAreas]} :
           n \in 1..maxn}

RatioLookFor(maxm) ==
    UNION {{[j \in 1..m |->
                LookForRow(j - 1, u[j], 4 - u[j], 1, f[j], Polygon(0, 0, 1))] :
                u \in InjectiveSeqs(m, RatioIds), f \in [1..m -> FloorAreas]} :
           m \in 0..maxm}

InitRatio ==
    /\ objects \in RatioObjects(MaxRows)
    /\ look_for \in RatioLookFor(MaxLookFor)
    /\ blocks = <<>>
    /\ call = NoCall
    /\ ret = NoRet

NextRatio == CallCoveredAreaRatio \/ CallFloorAreaRatio

SpecRatio == InitRatio /\ [][NextRatio]_vars

(* ------------------------ area ratios: claims ------------------------- *)

IsRatioCall == call.op \in {"covered_area_ratio", "floor_area_ratio"}

\* the look_for rows whose column id equals that of object row i
MatchesIn(i, id) == {j \in 1..Len(look_for) : look_for[j][id] = objects[i][id]}

\* object row i holds, in the result column, look_for row j's area column
\* over its own area column
HoldsRatio(i, j) ==
    LET v == objects[i].out[call.column_name]
    IN  /\ v.k = "num"
        /\ EqVal(v, Num(look_for[j][call.look_for_area_column],
                        objects[i][call.area_column]))

\* a call that joins on uID, names an area column only look_for has, and
\* divides by no zero
PlainRatioCall ==
    /\ IsRatioCall
    /\ call.id_column = "uID"
    /\ call.look_for_area_column \notin ObjectColumns
    /\ \A i \in 1..Len(objects) : objects[i][call.area_column] # 0

\* C2: every record of objects whose join id matches a record of look_for
\* gets that record's area over its own area, whatever the row order, the
\* row labels, and whether other records have a match.
C2_RatioAttachedToJoinId ==
    PlainRatioCall =>
        \A i \in 1..Len(objects) : \A j \in MatchesIn(i, "uID") : HoldsRatio(i, j)

\* C5: a record of objects whose join id has no match in look_for ends with
\* a missing value in the result column, never the ratio of another record.
C5_UnmatchedIsMissing ==
    PlainRatioCall =>
        \A i \in 1..Len(objects) :
            MatchesIn(i, "uID") = {} => objects[i].out[call.column_name].k = "nan"

\* C6: the join is on the column passed as id_column: with id_column = "bID"
\* the records are matched by equality of their bID values.
C6_JoinOnIdColumn ==
    (/\ IsRatioCall
     /\ call.id_column = "bID"
     /\ call.look_for_area_column \notin ObjectColumns
     /\ \A i \in 1..Len(objects) : objects[i][call.area_column] # 0) =>
        /\ ret.status = "ok"
        /\ \A i \in 1..Len(objects) : \A j \in MatchesIn(i, "bID") : HoldsRatio(i, j)

\* C7: when the area column of a (joined) record of objects is zero the call
\* completes, and that record carries an undefined marker, not a number.
C7_ZeroAreaNoError ==
    (/\ IsRatioCall
     /\ call.id_column = "uID"
     /\ call.look_for_area_column \notin ObjectColumns
     /\ \E i \in 1..Len(objects) :
            objects[i][call.area_column] = 0 /\ MatchesIn(i, "uID") # {}) =>
        /\ ret.status = "ok"
        /\ \A i \in 1..Len(objects) :
               (objects[i][call.area_column] = 0 /\ MatchesIn(i, "uID") # {}) =>
                   objects[i].out[call.column_name].k \in {"inf", "nan"}

\* What the code does guarantee: with the default RangeIndex on objects and
\* every record of objects matched, a plain call attaches each ratio to its
\* own record.
RatioOnRangeIndexAllMatched ==
    (/\ PlainRatioCall
     /\ IsRangeIndex(objects)
     /\ \A i \in 1..Len(objects) : MatchesIn(i, "uID") # {}) =>
        /\ ret.status = "ok"
        /\ \A i \in 1..Len(objects) : \A j \in MatchesIn(i, "uID") : HoldsRatio(i, j)

(* ------------------------- frequency: inputs -------------------------- *)

\* centroids: (0,0)-(240,320) are exactly 400 apart, the others nearer
Sites == {<<0, 0>>, <<240, 320>>, <<0, 240>>}

FrequencyObjects(maxn) ==
    UNION {{[i \in 1..n |->
                ObjectRow(l[i], i, 1, 1, Polygon(p[i][1], p[i][2], 1))] :
                l \in LabelSeqs(n), p \in [1..n -> Sites]} :
           n \in 1..maxn}

FrequencyLookFor(maxm) ==
    UNION {{[j \in 1..m |->
                LookForRow(l[j], j, 1, 1, 1, Polygon(p[j][1], p[j][2], 1))] :
                l \in LabelSeqs(m), p \in [1..m -> Sites]} :
           m \in 1..maxm}

InitFrequency ==
    /\ objects \in FrequencyObjects(MaxRows)
    /\ look_for \in FrequencyLookFor(MaxLookFor)
    /\ blocks = <<>>
    /\ call = NoCall
    /\ ret = NoRet

NextFrequency == CallFrequency

SpecFrequency == InitFrequency /\ [][NextFrequency]_vars

(* ------------------------- frequency: claims -------------------------- *)

\* the dataset the last frequency() call measured against
Measured == IF call.same THEN objects ELSE look_for

\* the number of centroids of df strictly nearer than 400 to row i's centroid
CentroidsWithin(i, df) ==
    Cardinality({j \in 1..Len(df) :
        DistLess(Dist2(centroid(objects[i].geometry), centroid(df[j].geometry)),
                 FrequencyRadius)})

\* C4: after frequency(), every record of objects holds the number of
\* look_for centroids at distance strictly less than 400 from its own
\* centroid; measured against itself, every record counts at least 1.
C4_FrequencyCountsNeighbours ==
    call.op = "frequency" =>
        \A i \in 1..Len(objects) :
            LET v == objects[i].out[call.column_name]
            IN  /\ v.k = "num"
                /\ EqVal(v, Num(CentroidsWithin(i, Measured), 1))
                /\ call.same => v.n >= v.d

\* What the code does guarantee: measured against a dataset with the
\* default RangeIndex, every record holds its count.
FrequencyOnRangeIndex ==
    (call.op = "frequency" /\ IsRangeIndex(Measured)) =>
        /\ ret.status = "ok"
        /\ \A i \in 1..Len(objects) :
               EqVal(objects[i].out[call.column_name],
                     Num(CentroidsWithin(i, Measured), 1))

(* ----------------------- block density: inputs ------------------------ *)

BlockIds == {1, 2}

UnitIds == {1, 2}

\* polygon areas of the blocks, in square metres
BlockAreas == {500, 1000}

BlockObjects(maxn) ==
    UNION {{[i \in 1..n |-> ObjectRow(l[i], u[i], b[i], 1, Polygon(0, 0, 1))] :
                l \in LabelSchemes(n), u \in [1..n -> UnitIds],
                b \in [1..n -> BlockIds]} :
           n \in 1..maxn}

BlockFrames(maxk) ==
    UNION {{[j \in 1..k |-> BlockRow(j - 1, b[j], Polygon(0, 0, a[j]))] :
                b \in [1..k -> BlockIds], a \in [1..k -> BlockAreas]} :
           k \in 1..maxk}

InitBlock ==
    /\ objects \in BlockObjects(MaxRows)
    /\ look_for = <<>>
    /\ blocks \in BlockFrames(MaxBlocks)
    /\ call = NoCall
    /\ ret = NoRet

NextBlock == CallBlockDensity

SpecBlock == InitBlock /\ [][NextBlock]_vars

(* ----------------------- block density: claims ------------------------ *)

\* the block ids used by the records of objects
UsedBlocks == {objects[i].bID : i \in 1..Len(objects)}

BlockPresent(b) == \E j \in 1..Len(blocks) : blocks[j].bID = b

\* the number of distinct unique ids among the objects of block b
DistinctUnits(b) ==
    Cardinality({objects[i].uID : i \in {j \in 1..Len(objects) : objects[j].bID = b}})

\* the area of the first record of blocks with block id b
FirstBlockArea(b) ==
    LET j == CHOOSE m \in 1..Len(blocks) :
                 blocks[m].bID = b /\ \A q \in 1..(m - 1) : blocks[q].bID # b
    IN  blocks[j].geometry.area

\* the density the objects of block b hold (that of the first of them)
DensityOf(b) ==
    LET i == CHOOSE m \in 1..Len(objects) :
                 objects[m].bID = b /\ \A q \in 1..(m - 1) : objects[q].bID # b
    IN  objects[i].out[call.column_name]

\* the sum over the blocks of S of density * area / 10000
RECURSIVE UnitsBack(_)
UnitsBack(S) ==
    IF S = {} THEN 0
    ELSE LET b == CHOOSE x \in S : TRUE
         IN  (DensityOf(b).n * FirstBlockArea(b)) \div (DensityOf(b).d * PerHectare)
             + UnitsBack(S \ {b})

RECURSIVE TotalUnits(_)
TotalUnits(S) ==
    IF S = {} THEN 0
    ELSE LET b == CHOOSE x \in S : TRUE
         IN  DistinctUnits(b) + TotalUnits(S \ {b})

\* C3: after block_density, when every block id used in objects is present
\* in blocks, every record holds 10000 * (distinct unique ids of its block)
\* / (area of the first blocks record with its block id); the objects of one
\* block hold the same value; the sum over the blocks of
\* density * area / 10000 is the total number of distinct units.
C3_BlockDensity ==
    (call.op = "block_density" /\ \A b \in UsedBlocks : BlockPresent(b)) =>
        /\ ret.status = "ok"
        /\ \A i \in 1..Len(objects) :
               LET v == objects[i].out[call.column_name]
                   b == objects[i].bID
               IN  /\ v.k = "num"
                   /\ EqVal(v, Num(PerHectare * DistinctUnits(b), FirstBlockArea(b)))
                   /\ v = DensityOf(b)
        /\ \A b \in UsedBlocks :
               (DensityOf(b).n * FirstBlockArea(b)) % (DensityOf(b).d * PerHectare) = 0
        /\ UnitsBack(UsedBlocks) = TotalUnits(UsedBlocks)

\* C3's case: two records of one block share a unique id, and blocks holds
\* that block twice with different areas
C3_Witness ==
    /\ call.op = "block_density"
    /\ ret.status = "ok"
    /\ \E i, j \in 1..Len(objects) :
           /\ i # j
           /\ objects[i].bID = objects[j].bID
           /\ objects[i].uID = objects[j].uID
           /\ objects[i].out[call.column_name].k = "num"
    /\ \E p, q \in 1..Len(blocks) :
           /\ p < q
           /\ blocks[p].bID = blocks[q].bID
           /\ blocks[p].bID \in UsedBlocks
           /\ blocks[p].geometry.area # blocks[q].geometry.area

\* C8: when a block id used by some record of objects is absent from blocks,
\* the failure is confined to the records of that block: the call is not
\* aborted, those records hold a missing value, and every record whose
\* block id is present holds its density.
C8_MissingBlockConfined ==
    (call.op = "block_density" /\ \E b \in UsedBlocks : ~BlockPresent(b)) =>
        /\ ret.status # "IndexError"
        /\ \A i \in 1..Len(objects) :
               LET v == objects[i].out[call.column_name]
                   b == objects[i].bID
               IN  IF BlockPresent(b)
                   THEN /\ v.k = "num"
                        /\ EqVal(v, Num(PerHectare * DistinctUnits(b),
                                        FirstBlockArea(b)))
                   ELSE v.k = "nan"

(* ------------------- all four characters: inputs ---------------------- *)

\* the centroid of the objects of a block
BlockSite(b) == IF b = 1 THEN <<0, 0>> ELSE <<240, 320>>

\* the centroid of the look_for record at position j
LookForSite(j) == IF j = 1 THEN <<0, 0>> ELSE <<0, 240>>

\* objects: unique ids 1..n, any block per record, at most one record (z)
\* with a zero area column
AllObjects(maxn) ==
    UNION {{[i \in 1..n |->
                ObjectRow(l[i], i, b[i], IF i = z THEN 0 ELSE 2,
                          Polygon(BlockSite(b[i])[1], BlockSite(b[i])[2], 1))] :
                l \in LabelSchemes(n), b \in [1..n -> BlockIds], z \in 0..n} :
           n \in 1..maxn}

\* look_for: m records with ids 1..m
AllLookFor(m) ==
    {[j \in 1..m |->
         LookForRow(l[j], j, j, 1, 3,
                    Polygon(LookForSite(j)[1], LookForSite(j)[2], 1))] :
        l \in LabelSchemes(m)}

\* blocks 1..k, one record each
AllBlocks ==
    {[j \in 1..k |-> BlockRow(j - 1, j, Polygon(0, 0, 5000))] :
        k \in 1..Cardinality(BlockIds)}

Init ==
    /\ objects \in AllObjects(MaxRows)
    /\ look_for \in AllLookFor(MaxLookFor)
    /\ blocks \in AllBlocks
    /\ call = NoCall
    /\ ret = NoRet

Next ==
    \/ CallFrequency
    \/ CallCoveredAreaRatio
    \/ CallFloorAreaRatio
    \/ CallBlockDensity

Spec == Init /\ [][Next]_vars

(* ---------------------------- frame: claim ---------------------------- *)

\* row r of a dataset without its result column c
Besides(r, c) == [r EXCEPT !.out[c] = NaN]

\* a step keeps the records of objects, their order, their geometry and
\* every column but the result column of the call; look_for and blocks stay
FrameStep ==
    /\ Len(objects') = Len(objects)
    /\ \A i \in 1..Len(objects) :
           Besides(objects'[i], call'.column_name)
               = Besides(objects[i], call'.column_name)
    /\ look_for' = look_for
    /\ blocks' = blocks

\* C10: after any sequence of frequency, covered_area_ratio,
\* floor_area_ratio and block_density calls, objects has the same records in
\* the same order, with unchanged geometry and unchanged values in every
\* column other than the result columns of the calls; look_for and blocks
\* are unchanged.
C10_Frame == [][FrameStep]_vars

\* C10's case: a frequency call has completed on a dataset that already
\* holds a block density in the other result column
C10_Witness ==
    /\ call.op = "frequency"
    /\ ret.status = "ok"
    /\ \E i \in 1..Len(objects) : \E c \in OutCols \ {call.column_name} :
           /\ objects[i].out[call.column_name].k = "num"
           /\ objects[i].out[c].k = "num"
           /\ objects[i].out[c].n >= PerHectare

====
